---- MODULE Spec2Model ----
(***************************************************************************)
(* Model of the student extension's synchronization engine:               *)
(* AssignmentProvider (contexts/assignment-context), its two pollers, its  *)
(* push-channel (WebSocket) effect and the snapshot fetchers it calls.     *)
(*                                                                         *)
(* Granularity: one action is one callback of the program run to its end   *)
(* or to its next await: a timer callback, the continuation after an       *)
(* await, a signal handler, a socket event listener, an effect (the        *)
(* cleanup of its previous run, then its body).  The state updates one     *)
(* callback makes are committed together (React batches them) and are      *)
(* what readers see from then on.  An effect whose dependency changed runs *)
(* as a callback of its own, after the commit that changed the dependency. *)
(*                                                                         *)
(* The module also models the instructor's assignment form (AssignmentInfo *)
(* with its three debounced handlers and updateAssignment) and the         *)
(* Assignment entity built from a server response.  The three parts share  *)
(* no state; each has its own next-state relation and specification, and   *)
(* the variables of the other parts keep their initial values in it.       *)
(***************************************************************************)
EXTENDS Integers, Sequences, FiniteSets, TLC

\* ---------------------------------------------------------------- bounds
MaxPollers == 3      \* assignment pollers ever created (1 + path changes)
MaxFetches == 3      \* fetch requests issued (both domains together)
MaxSockets == 2      \* WebSocket objects ever created
MaxDialogs == 1      \* downsync dialogs opened
MaxMessages == 2     \* messages handled by the "message" listener
MaxEdits == 3        \* change events of the instructor form
MaxSubmissions == 3  \* submissions of one assignment
MaxUploads == 2      \* submit requests sent

\* ------------------------------------------------------- program constants
\* declared by the provider and used nowhere in it
WEBSOCKET_REOPEN_DELAY == 1000

\* ------------------------------------------------------------------ values
Paths == {"A", "B"}
NullPath == "null"
AllPaths == Paths \cup {NullPath}

\* the value `undefined` of a snapshot slot (the useState initial value)
Undefined == [v |-> "undefined", req |-> 0, path |-> "-"]

\* wire shapes of the /assignments response
AssignmentsWire == [assignments : {"null", "list"}, current_assignment : {"null", "obj"}]

\* message types delivered on the push channel
MessageTypes == {"downsync", "other"}

\* ---- the instructor assignment form (AssignmentInfo)
\* Date | null: <<>> is null, <<t>> the instant t, counted in half minutes
Null == <<>>
TicksPerMinute == 2
Minutes == 0..1
Instants == 0..(TicksPerMinute * (Cardinality(Minutes)) - 1)
Dates == {Null} \cup {<<t>> : t \in Instants}

\* the value of a datetime-local input: "" or a local time to the minute
MuiText == <<"T00:00", "T00:01">>
MuiValues == {""} \cup {MuiText[i] : i \in DOMAIN MuiText}
Notebooks == {"a.ipynb", "b.ipynb"}

DateFields == {"availableDate", "dueDate"}
Fields == DateFields \cup {"gradedNotebook"}
Outcomes == {"ok", "http", "network"}

\* the dates of an assignment as the server can hold them
ServerAssignments ==
    {a \in [availableDate : Dates, dueDate : Dates] :
        (a.availableDate # Null /\ a.dueDate # Null) => a.availableDate[1] < a.dueDate[1]}
Unreleased == [availableDate |-> Null, dueDate |-> Null]

VARIABLES
    mounted,            \* the provider is mounted (effects not yet cleaned up)
    currentPath,        \* useState currentPath
    currentAssignment,  \* useState currentAssignment
    assignments,        \* useState assignments
    student,            \* useState student
    course,             \* useState course
    loading,            \* useMemo loading, as of the last commit
    apoll,              \* the closures of the assignments poll effect, oldest first
    cpoll,              \* the closure of the course/student poll effect
    nreq,               \* number of fetch requests issued so far
    sockets,            \* every WebSocket object created, oldest first
    ws,                 \* useState ws: index into sockets
    wsBound,            \* the ws the websocket effect last ran for
    warnings,           \* snackbar.open({type: 'warning'}) calls
    dialogs,            \* showDialog calls
    received,           \* the type of every message the "message" listener handled
    server,             \* the dates of the assignment on the server
    assignment,         \* useAssignment().assignment of the form: the last snapshot
    infoEffectDue,      \* the [assignment] effect of the form has not run for it yet
    controlled,         \* availableDateControlled, dueDateControlled, gradedNotebookControlled
    debounce,           \* the state of each field's useDebouncedCallback
    window,             \* per field: calls and invocations since its debounce window opened
    inflight,           \* updateAssignment requests awaiting their response
    errors,             \* snackbar.open({type: 'error'}) calls
    failures,           \* per field and kind: updateAssignment requests that failed
    nEdits,             \* change events dispatched to the form so far
    e,                  \* the last change event
    now,                \* the wall clock, in half minutes
    data,               \* the AssignmentResponse last received
    built,              \* the Assignment last constructed from a response
    submissions,        \* the _submissions field of an Assignment
    activeRead,         \* what the last read of its activeSubmission returned
    form,               \* AssignmentSubmitForm: what useAssignment() gives it and its state
    uploads,            \* submitAssignment requests awaiting their response
    notices             \* snackbar.open calls of the submit form, by type

vars == <<mounted, currentPath, currentAssignment, assignments, student, course,
          loading, apoll, cpoll, nreq, sockets, ws, wsBound, warnings, dialogs,
          received, server, assignment, infoEffectDue, controlled, debounce, window,
          inflight, errors, failures, nEdits, e, now, data, built,
          submissions, activeRead, form, uploads, notices>>

providerVars == <<mounted, currentPath, currentAssignment, assignments, student, course,
                  loading, apoll, cpoll, nreq, sockets, ws, wsBound, warnings, dialogs,
                  received>>
infoVars == <<server, assignment, infoEffectDue, controlled, debounce, window,
              inflight, errors, failures, nEdits, e>>
entityVars == <<now, data, built>>
listVars == <<submissions, activeRead>>
submitVars == <<form, uploads, notices>>
extVars == <<infoVars, entityVars, listVars, submitVars>>
outsideInfo == <<providerVars, entityVars, listVars, submitVars>>
outsideEntity == <<providerVars, infoVars, listVars, submitVars>>
outsideList == <<providerVars, infoVars, entityVars, submitVars>>
outsideSubmit == <<providerVars, infoVars, entityVars, listVars>>

slots == <<currentAssignment, assignments, student, course, loading>>
wsVars == <<sockets, ws, wsBound, dialogs, received>>

\* --------------------------------------------------------- pure functions

\* getAssignments: wire response -> { assignments, currentAssignment }
getAssignments(path, req, wire) ==
    [assignments |->
        [v |-> IF wire.assignments = "list" THEN "list" ELSE "null",
         req |-> req, path |-> path],
     currentAssignment |->
        [v |-> IF wire.current_assignment = "obj" THEN "assignment" ELSE "null",
         req |-> req, path |-> path]]

\* getStudentAndCourse: always a student and a course
getStudentAndCourse(req) ==
    [student |-> [v |-> "student", req |-> req, path |-> "-"],
     course  |-> [v |-> "course",  req |-> req, path |-> "-"]]

Loading_NullCounts(ca, as, st, co) ==
    \/ ca.v \in {"undefined", "null"}
    \/ as.v \in {"undefined", "null"}
    \/ st.v \in {"undefined", "null"}
    \/ co.v \in {"undefined", "null"}

\* const loading = useMemo(...)
Loading(ca, as, st, co) ==
    \/ ca = Undefined
    \/ as = Undefined
    \/ st = Undefined
    \/ co = Undefined

\* what AssignmentContent renders
AssignmentContent ==
    IF loading THEN "spinner"
    ELSE IF assignments.v = "null" \/ currentAssignment.v = "null" THEN "NoAssignmentWarning"
    ELSE "assignment"

\* one commit of the four snapshot slots; loading is re-derived in the commit
Commit(ca, as, st, co) ==
    /\ currentAssignment' = ca
    /\ assignments' = as
    /\ student' = st
    /\ course' = co
    /\ loading' = Loading(ca, as, st, co)

\* `if (cancelled) return` after the await
Discarded(p) == p.cancelled

Applied_Torn(value) ==
    [assignments |-> value.assignments, currentAssignment |-> currentAssignment]

\* the two setState calls after a successful fetch of the assignments domain
Applied(value) ==
    [assignments |-> value.assignments, currentAssignment |-> value.currentAssignment]

Rescheduled_OnlyOnSuccess(ok) == IF ok THEN "timer" ELSE "done"

\* the trailing setTimeout(poll, 2500) of poll
Rescheduled(ok) == "timer"

NewPoller(path) == [path |-> path, cancelled |-> FALSE, pc |-> "timer", req |-> 0]

Cancel(p) == [p EXCEPT !.cancelled = TRUE]

\* poll() returned without re-arming its timer: the closure is dead
Returned(p) == [p EXCEPT !.pc = "done", !.req = 0]

OpensDialog_Always(type) == TRUE

\* if (type === "downsync") of the "message" listener
OpensDialog(type) == type = "downsync"

\* new WebSocket(WEBSOCKET_URL): connecting, no listener attached yet
NewSocket == [state |-> "connecting", closePending |-> FALSE, listeners |-> FALSE]

\* WebSocket.close(): a socket that is not yet closed closes and queues its close event
Close(s) ==
    IF s.state = "closed" THEN s
    ELSE [s EXCEPT !.state = "closed", !.closePending = TRUE]

\* ---- the instructor assignment form

\* moment(date).format("YYYY-MM-DDTHH:mm"): local time, seconds dropped
formatDateToMui(date) ==
    IF date = Null THEN "" ELSE MuiText[(date[1] \div TicksPerMinute) + 1]

\* new Date(value) of a datetime-local value; every comparison with an
\* Invalid Date is false
InvalidDate == <<-1>>
NewDate(value) ==
    IF value = "" THEN InvalidDate
    ELSE <<TicksPerMinute * ((CHOOSE i \in DOMAIN MuiText : MuiText[i] = value) - 1)>>

\* utils.addLocalTimezone: the same local time with its zone offset spelled out
addLocalTimezone(value) == NewDate(value)

Rejects_Never(field, value) == FALSE

\* the guard of the onChange handler of a date input
Rejects(field, value) ==
    LET d == NewDate(value)
    IN  CASE field = "availableDate" ->
                assignment.dueDate # Null /\ d # InvalidDate /\ d[1] >= assignment.dueDate[1]
          [] field = "dueDate" ->
                assignment.availableDate # Null /\ d # InvalidDate /\ d[1] <= assignment.availableDate[1]
          [] OTHER -> FALSE

\* the key of UpdateAssignmentData a field's handler writes
BodyKey(field) ==
    CASE field = "availableDate" -> "available_date"
      [] field = "dueDate" -> "due_date"
      [] OTHER -> "master_notebook_path"

\* newDate of a date handler, e.target.value of the notebook handler
WireValue(field, value) ==
    IF field \in DateFields
    THEN IF value # "" THEN addLocalTimezone(value) ELSE Null
    ELSE value

Body_Both(field, value) ==
    IF field \in DateFields
    THEN ("available_date" :> WireValue("availableDate", IF field = "availableDate" THEN value ELSE controlled["availableDate"]))
         @@ ("due_date" :> WireValue("dueDate", IF field = "dueDate" THEN value ELSE controlled["dueDate"]))
    ELSE (BodyKey(field) :> WireValue(field, value))

\* the data argument of updateAssignment
Body(field, value) == (BodyKey(field) :> WireValue(field, value))

\* updateAssignment(assignment.name, data) issued by the handler of a field
Request(field, value) == [handler |-> field, data |-> Body(field, value)]

Notifies_Always(field, outcome) == outcome # "ok"

\* the catch block of a handler opens the error snackbar: the date handlers
\* read e.response, the notebook handler has no catch block
Notifies(field, outcome) == field \in DateFields /\ outcome = "http"

\* PATCH /assignments on the server: the keys present replace the stored dates
Patched(stored, body) ==
    [k \in DateFields |-> IF BodyKey(k) \in DOMAIN body THEN body[BodyKey(k)] ELSE stored[k]]

\* sequence s without its element i
Without(s, i) == SubSeq(s, 1, i - 1) \o SubSeq(s, i + 1, Len(s))

\* ---- the Assignment entity (api/assignment.ts)

\* a date on the wire: JSON null or an ISO string, here one per instant
WireNull == "null"
IsoText == <<"T00:00:00Z", "T00:00:30Z", "T00:01:00Z", "T00:01:30Z">>
NoResponse == [id |-> 0]
NoAssignment == [id |-> 0]

\* JSON serialisation of a date by the server
ToWire(date) == IF date = Null THEN WireNull ELSE IsoText[date[1] + 1]

\* the adjusted dates the server can hold: the due date is not before the
\* available date
AdjustedDates ==
    {a \in [available : Dates, due : Dates] :
        (a.available # Null /\ a.due # Null) => a.available[1] <= a.due[1]}

\* the AssignmentResponse the server builds at time t for the adjusted dates a
AssignmentResponse(a, t) ==
    LET created == a.available # Null /\ a.due # Null
    IN  [id |-> 1,
         adjusted_available_date |-> ToWire(a.available),
         adjusted_due_date |-> ToWire(a.due),
         is_created |-> created,
         is_available |-> created /\ t >= a.available[1],
         is_closed |-> created /\ t >= a.due[1]]

\* `wire ? new Date(wire) : null`
ToDate(wire) ==
    IF wire = WireNull \/ wire = "" THEN Null
    ELSE <<(CHOOSE i \in DOMAIN IsoText : IsoText[i] = wire) - 1>>

fromResponse_SwappedFlags(d) ==
    [id |-> d.id,
     adjustedAvailableDate |-> ToDate(d.adjusted_available_date),
     adjustedDueDate |-> ToDate(d.adjusted_due_date),
     isCreated |-> d.is_created,
     isAvailable |-> d.is_closed,
     isClosed |-> d.is_available]

\* Assignment.fromResponse; the getters return the fields the constructor stored
fromResponse(d) ==
    [id |-> d.id,
     adjustedAvailableDate |-> ToDate(d.adjusted_available_date),
     adjustedDueDate |-> ToDate(d.adjusted_due_date),
     isCreated |-> d.is_created,
     isAvailable |-> d.is_available,
     isClosed |-> d.is_closed]

\* ---- the submissions of an Assignment

\* the optional _submissions constructor argument: undefined or an array
Submissions(defined, list) == [defined |-> defined, list |-> list]

\* the submissions of a response, in the order the server lists them
SubmissionLists ==
    UNION {[1..n -> Instants] : n \in 0..MaxSubmissions}
Submission(i, time) == [id |-> i, submissionTime |-> time]

\* results of the activeSubmission getter that are not a submission
UndefinedResult == [kind |-> "undefined"]
NullResult == [kind |-> "null"]
Unread == [kind |-> "unread"]

Compare_Ascending(a, b) == a.submissionTime - b.submissionTime

\* (a, b) => b.submissionTime.getTime() - a.submissionTime.getTime()
Compare(a, b) == b.submissionTime - a.submissionTime

\* Array.prototype.sort is stable: x goes before the first element it must precede
RECURSIVE InsertSorted(_, _)
InsertSorted(x, s) ==
    IF s = <<>> THEN <<x>>
    ELSE IF Compare(x, Head(s)) < 0 THEN <<x>> \o s
    ELSE <<Head(s)>> \o InsertSorted(x, Tail(s))

RECURSIVE sort(_)
sort(s) ==
    IF s = <<>> THEN <<>>
    ELSE InsertSorted(s[Len(s)], sort(SubSeq(s, 1, Len(s) - 1)))

\* get activeSubmission(): the value it returns
activeSubmission(subs) ==
    IF ~subs.defined THEN UndefinedResult
    ELSE IF Len(subs.list) = 0 THEN NullResult
    ELSE sort(subs.list)[1]

\* ---- the submit form

SummaryTexts == {"", "s"}
DescriptionTexts == {"", "d"}
\* an undefined tooltip title or description argument
UndefinedText == "undefined"

\* isAvailable and isClosed of the current assignment, as the server sets them
FormAssignments ==
    {[isAvailable |-> FALSE, isClosed |-> FALSE],
     [isAvailable |-> TRUE, isClosed |-> FALSE],
     [isAvailable |-> TRUE, isClosed |-> TRUE]}

\* course.instructors.length
InstructorCounts == {1, 2}

\* a newly mounted AssignmentSubmitForm: useAssignment() and the useState initial values
Mounted(a, n, p) ==
    [assignment |-> a, instructors |-> n, path |-> p, stale |-> FALSE,
     summaryText |-> "", descriptionText |-> "", submitting |-> FALSE]

Disabled_IgnoresClosed(f) ==
    f.submitting \/ f.summaryText = "" \/ ~f.assignment.isAvailable

\* const disabled
Disabled(f) ==
    f.submitting \/ f.summaryText = "" \/ ~f.assignment.isAvailable \/ f.assignment.isClosed

Uploading == "Currently uploading submission"
NotAvailable == "Assignment is not available for you to work on yet"
PastDue(n) ==
    IF n > 1 THEN "Past due. Please contact your instructors if you need an extension"
    ELSE "Past due. Please contact your instructor if you need an extension"
NoSummary == "Please enter a summary for the submission"

\* const disabledReason; the form is rendered with an assignment only
DisabledReason(f) ==
    IF ~Disabled(f) THEN UndefinedText
    ELSE IF f.submitting THEN Uploading
    ELSE IF ~f.assignment.isAvailable THEN NotAvailable
    ELSE IF f.assignment.isClosed THEN PastDue(f.instructors)
    ELSE IF f.summaryText = "" THEN NoSummary
    ELSE UndefinedText

DescriptionArgument_EmptyIsUndefined(text) == IF text = "" THEN UndefinedText ELSE text

\* descriptionText ?? undefined: only null and undefined are replaced
DescriptionArgument(text) == text

\* JSON.stringify({summary, description, current_path}) leaves out an
\* undefined description
UploadBody(path, summary, description) ==
    IF description = UndefinedText
    THEN [summary |-> summary, current_path |-> path]
    ELSE [summary |-> summary, description |-> description, current_path |-> path]

\* a pending apiSubmitAssignment call: its body, the texts of the form when
\* it was made, and whether the form that made it is still the mounted one
Upload(f) ==
    [body |-> UploadBody(f.path, f.summaryText, DescriptionArgument(f.descriptionText)),
     summaryText |-> f.summaryText,
     descriptionText |-> f.descriptionText,
     live |-> TRUE]

\* ------------------------------------------------------------------- Init
InitProvider ==
    /\ mounted = TRUE
    /\ currentPath = NullPath
    /\ currentAssignment = Undefined
    /\ assignments = Undefined
    /\ student = Undefined
    /\ course = Undefined
    /\ loading = TRUE
    /\ apoll = <<NewPoller(NullPath)>>
    /\ cpoll = NewPoller("-")
    /\ nreq = 0
    /\ sockets = <<[NewSocket EXCEPT !.listeners = TRUE]>>
    /\ ws = 1
    /\ wsBound = 1
    /\ warnings = 0
    /\ dialogs = 0
    /\ received = <<>>

\* the form is mounted with the snapshot `a` of the assignment
InitInfo(a) ==
    /\ server = a
    /\ assignment = a
    /\ infoEffectDue = FALSE
    /\ controlled = [f \in Fields |->
                        IF f = "gradedNotebook" THEN "a.ipynb"
                        ELSE formatDateToMui(a[f])]
    /\ debounce = [f \in Fields |-> "idle"]
    /\ window = [f \in Fields |-> [calls |-> 0, sent |-> 0]]
    /\ inflight = <<>>
    /\ errors = 0
    /\ failures = [f \in Fields |-> [http |-> 0, network |-> 0]]
    /\ nEdits = 0
    /\ e = [field |-> "none", value |-> ""]
\* no response received yet
InitEntity ==
    /\ now = 0
    /\ data = NoResponse
    /\ built = NoAssignment

\* an Assignment built without a submissions list, activeSubmission not read
InitList ==
    /\ submissions = Submissions(FALSE, <<>>)
    /\ activeRead = Unread

\* the submit form mounted for an assignment that is not available yet
InitSubmit ==
    /\ form = Mounted([isAvailable |-> FALSE, isClosed |-> FALSE], 1, "A")
    /\ uploads = <<>>
    /\ notices = [success |-> 0, error |-> 0]

Init ==
    /\ InitProvider
    /\ InitInfo(Unreleased)
    /\ InitEntity
    /\ InitList
    /\ InitSubmit

InitForm ==
    /\ InitProvider
    /\ \E s \in ServerAssignments : InitInfo(s)
    /\ InitEntity
    /\ InitList
    /\ InitSubmit

\* ---------------------------------------------------------------- actions

\* the dependency of an effect differs from the one it last ran with
AssignEffectDue == apoll[Len(apoll)].path # currentPath
WsEffectDue == ws # wsBound

\* setCurrentPath(fileBrowser.model.path) and onCurrentPathChanged
PathChanged(p) ==
    /\ mounted
    /\ p # currentPath
    /\ Len(apoll) < MaxPollers
    /\ currentPath' = p
    /\ UNCHANGED slots
    /\ UNCHANGED <<mounted, apoll, cpoll, nreq, warnings>>
    /\ UNCHANGED wsVars
    /\ UNCHANGED extVars

AssignEffect_ResetsCourse ==
    /\ mounted
    /\ AssignEffectDue
    /\ apoll' = Append([apoll EXCEPT ![Len(apoll)] = Cancel(@)], NewPoller(currentPath))
    /\ Commit(Undefined, Undefined, Undefined, Undefined)
    /\ UNCHANGED <<mounted, currentPath, cpoll, nreq, warnings>>
    /\ UNCHANGED wsVars
    /\ UNCHANGED extVars

\* the assignments poll effect runs for a new currentPath: the cleanup of its
\* previous run, then its body
AssignEffect ==
    /\ mounted
    /\ AssignEffectDue
    /\ apoll' = Append([apoll EXCEPT ![Len(apoll)] = Cancel(@)], NewPoller(currentPath))
    /\ Commit(Undefined, Undefined, student, course)
    /\ UNCHANGED <<mounted, currentPath, cpoll, nreq, warnings>>
    /\ UNCHANGED wsVars
    /\ UNCHANGED extVars

\* the timer of assignments poller i fires: poll() runs up to its await
AssignPollTimer(i) ==
    /\ i \in DOMAIN apoll
    /\ apoll[i].pc = "timer"
    /\ IF apoll[i].path # NullPath
       THEN /\ nreq < MaxFetches
            /\ nreq' = nreq + 1
            /\ apoll' = [apoll EXCEPT ![i].pc = "fetching", ![i].req = nreq + 1]
            /\ UNCHANGED slots
       ELSE /\ UNCHANGED nreq
            /\ IF Discarded(apoll[i])
               THEN /\ apoll' = [apoll EXCEPT ![i] = Returned(@)]
                    /\ UNCHANGED slots
               ELSE /\ apoll' = [apoll EXCEPT ![i].pc = Rescheduled(FALSE)]
                    /\ Commit(Undefined, Undefined, student, course)
    /\ UNCHANGED <<mounted, currentPath, cpoll, warnings>>
    /\ UNCHANGED wsVars
    /\ UNCHANGED extVars

\* the request of assignments poller i settles: poll() runs from its await to its end
AssignFetchSettled(i, ok, wire) ==
    /\ i \in DOMAIN apoll
    /\ apoll[i].pc = "fetching"
    /\ warnings' = IF ok THEN warnings ELSE warnings + 1
    /\ IF Discarded(apoll[i])
       THEN /\ apoll' = [apoll EXCEPT ![i] = Returned(@)]
            /\ UNCHANGED slots
       ELSE /\ apoll' = [apoll EXCEPT ![i].pc = Rescheduled(ok)]
            /\ IF ok
               THEN LET value == Applied(getAssignments(apoll[i].path, apoll[i].req, wire))
                    IN  Commit(value.currentAssignment, value.assignments, student, course)
               ELSE Commit(Undefined, Undefined, student, course)
    /\ UNCHANGED <<mounted, currentPath, cpoll, nreq>>
    /\ UNCHANGED wsVars
    /\ UNCHANGED extVars

\* the timer of the course/student poller fires
CoursePollTimer ==
    /\ cpoll.pc = "timer"
    /\ nreq < MaxFetches
    /\ nreq' = nreq + 1
    /\ cpoll' = [cpoll EXCEPT !.pc = "fetching", !.req = nreq + 1]
    /\ UNCHANGED slots
    /\ UNCHANGED <<mounted, currentPath, apoll, warnings>>
    /\ UNCHANGED wsVars
    /\ UNCHANGED extVars

\* the request of the course/student poller settles
CourseFetchSettled(ok) ==
    /\ cpoll.pc = "fetching"
    /\ warnings' = IF ok THEN warnings ELSE warnings + 1
    /\ IF Discarded(cpoll)
       THEN /\ cpoll' = Returned(cpoll)
            /\ UNCHANGED slots
       ELSE /\ cpoll' = [cpoll EXCEPT !.pc = Rescheduled(ok)]
            /\ IF ok
               THEN LET value == getStudentAndCourse(cpoll.req)
                    IN  Commit(currentAssignment, assignments, value.student, value.course)
               ELSE Commit(currentAssignment, assignments, Undefined, Undefined)
    /\ UNCHANGED <<mounted, currentPath, apoll, nreq>>
    /\ UNCHANGED wsVars
    /\ UNCHANGED extVars

\* the connection of socket i is established
WsOpen(i) ==
    /\ i \in DOMAIN sockets
    /\ sockets[i].state = "connecting"
    /\ sockets' = [sockets EXCEPT ![i].state = "open"]
    /\ UNCHANGED <<ws, wsBound, dialogs, received>>
    /\ UNCHANGED slots
    /\ UNCHANGED <<mounted, currentPath, apoll, cpoll, nreq, warnings>>
    /\ UNCHANGED extVars

\* network failure or server close of socket i
WsDropped(i) ==
    /\ i \in DOMAIN sockets
    /\ sockets[i].state # "closed"
    /\ sockets' = [sockets EXCEPT ![i] = Close(@)]
    /\ UNCHANGED <<ws, wsBound, dialogs, received>>
    /\ UNCHANGED slots
    /\ UNCHANGED <<mounted, currentPath, apoll, cpoll, nreq, warnings>>
    /\ UNCHANGED extVars

\* a message arrives on socket i: its "message" listener, if it has one
WsMessage(i, type) ==
    /\ i \in DOMAIN sockets
    /\ sockets[i].state = "open"
    /\ IF sockets[i].listeners
       THEN /\ Len(received) < MaxMessages
            /\ received' = Append(received, type)
            /\ IF OpensDialog(type)
               THEN /\ dialogs < MaxDialogs
                    /\ dialogs' = dialogs + 1
               ELSE UNCHANGED dialogs
       ELSE UNCHANGED <<dialogs, received>>
    /\ UNCHANGED <<sockets, ws, wsBound>>
    /\ UNCHANGED slots
    /\ UNCHANGED <<mounted, currentPath, apoll, cpoll, nreq, warnings>>
    /\ UNCHANGED extVars

\* the close event of socket i is dispatched: triggerReconnect, if it is attached
WsCloseEvent(i) ==
    /\ i \in DOMAIN sockets
    /\ sockets[i].closePending
    /\ IF sockets[i].listeners
       THEN /\ Len(sockets) < MaxSockets
            /\ sockets' = Append([sockets EXCEPT ![i] = [Close(@) EXCEPT !.closePending = FALSE]],
                                 NewSocket)
            /\ ws' = IF mounted THEN Len(sockets) + 1 ELSE ws
       ELSE /\ sockets' = [sockets EXCEPT ![i].closePending = FALSE]
            /\ UNCHANGED ws
    /\ UNCHANGED <<wsBound, dialogs, received>>
    /\ UNCHANGED slots
    /\ UNCHANGED <<mounted, currentPath, apoll, cpoll, nreq, warnings>>
    /\ UNCHANGED extVars

\* the websocket effect runs for a new ws: the cleanup of its previous run,
\* then its body
WsEffect ==
    /\ mounted
    /\ WsEffectDue
    /\ sockets' = [sockets EXCEPT ![wsBound] = Close(@), ![ws].listeners = TRUE]
    /\ wsBound' = ws
    /\ UNCHANGED <<ws, dialogs, received>>
    /\ UNCHANGED slots
    /\ UNCHANGED <<mounted, currentPath, apoll, cpoll, nreq, warnings>>
    /\ UNCHANGED extVars

\* the provider is torn down: the cleanup of every effect runs (effects that
\* are due run before the commit that unmounts)
Unmount ==
    /\ mounted
    /\ ~AssignEffectDue
    /\ ~WsEffectDue
    /\ mounted' = FALSE
    /\ sockets' = [sockets EXCEPT ![wsBound] = Close(@)]
    /\ apoll' = [apoll EXCEPT ![Len(apoll)] = Cancel(@)]
    /\ cpoll' = Cancel(cpoll)
    /\ UNCHANGED <<ws, wsBound, dialogs, received>>
    /\ UNCHANGED slots
    /\ UNCHANGED <<currentPath, nreq, warnings>>
    /\ UNCHANGED extVars

\* ---- actions of the instructor assignment form

InfoEffect_KeepsEdits ==
    /\ infoEffectDue
    /\ infoEffectDue' = FALSE
    /\ UNCHANGED <<server, assignment, controlled, debounce, window, inflight, errors, failures, nEdits, e>>
    /\ UNCHANGED outsideInfo

\* useEffect(..., [assignment]) of the form
InfoEffect ==
    /\ infoEffectDue
    /\ infoEffectDue' = FALSE
    /\ controlled' = [controlled EXCEPT !["availableDate"] = formatDateToMui(assignment.availableDate),
                                        !["dueDate"] = formatDateToMui(assignment.dueDate)]
    /\ UNCHANGED <<server, assignment, debounce, window, inflight, errors, failures, nEdits, e>>
    /\ UNCHANGED outsideInfo

\* a poll of the provider commits a freshly built assignment (effects that are
\* due run before the next commit)
Snapshot ==
    /\ ~infoEffectDue
    /\ assignment' = server
    /\ infoEffectDue' = TRUE
    /\ UNCHANGED <<server, controlled, debounce, window, inflight, errors, failures, nEdits, e>>
    /\ UNCHANGED outsideInfo

Debounced_TrailingOnly(field, value) ==
    /\ debounce' = [debounce EXCEPT ![field] = "pending"]
    /\ window' = [window EXCEPT ![field] =
                    IF debounce[field] = "idle" THEN [calls |-> 1, sent |-> 0]
                    ELSE [@ EXCEPT !.calls = @ + 1]]
    /\ UNCHANGED inflight

\* a call of a field's debounced handler: useDebouncedCallback(fn, 1000,
\* { leading: true }) invokes fn at once when no timer runs and otherwise keeps
\* the call for the trailing edge
Debounced(field, value) ==
    IF debounce[field] = "idle"
    THEN /\ debounce' = [debounce EXCEPT ![field] = "waiting"]
         /\ window' = [window EXCEPT ![field] = [calls |-> 1, sent |-> 1]]
         /\ inflight' = Append(inflight, Request(field, value))
    ELSE /\ debounce' = [debounce EXCEPT ![field] = "pending"]
         /\ window' = [window EXCEPT ![field].calls = @ + 1]
         /\ UNCHANGED inflight

\* onChange of a field with e.target.value = value (effects that are due run
\* before a user event is handled)
Edit(field, value) ==
    /\ ~infoEffectDue
    /\ nEdits < MaxEdits
    /\ nEdits' = nEdits + 1
    /\ e' = [field |-> field, value |-> value]
    /\ IF Rejects(field, value)
       THEN UNCHANGED <<controlled, debounce, window, inflight>>
       ELSE /\ controlled' = [controlled EXCEPT ![field] = value]
            /\ Debounced(field, value)
    /\ UNCHANGED <<server, assignment, infoEffectDue, errors, failures>>
    /\ UNCHANGED outsideInfo

\* the 1000 ms timer of a field's debounce expires: the trailing call, if a call
\* was kept, reads e.target.value, which is what the field displays by then
DebounceTimer(field) ==
    /\ debounce[field] # "idle"
    /\ debounce' = [debounce EXCEPT ![field] = "idle"]
    /\ IF debounce[field] = "pending"
       THEN /\ inflight' = Append(inflight, Request(field, controlled[field]))
            /\ window' = [window EXCEPT ![field].sent = @ + 1]
       ELSE UNCHANGED <<inflight, window>>
    /\ UNCHANGED <<server, assignment, infoEffectDue, controlled, errors, failures, nEdits, e>>
    /\ UNCHANGED outsideInfo

\* the response of request i arrives: the handler continues after its await
UpdateSettled(i, outcome) ==
    /\ i \in DOMAIN inflight
    /\ inflight' = Without(inflight, i)
    /\ server' = IF outcome = "ok" THEN Patched(server, inflight[i].data) ELSE server
    /\ errors' = IF Notifies(inflight[i].handler, outcome) THEN errors + 1 ELSE errors
    /\ failures' = IF outcome = "ok" THEN failures
                   ELSE [failures EXCEPT ![inflight[i].handler][outcome] = @ + 1]
    /\ UNCHANGED <<assignment, infoEffectDue, controlled, debounce, window, nEdits, e>>
    /\ UNCHANGED outsideInfo

\* ---- actions of the Assignment entity

\* the server answers a fetch at the current time
Respond(a) ==
    /\ data' = AssignmentResponse(a, now)
    /\ UNCHANGED <<now, built>>
    /\ UNCHANGED outsideEntity

\* getAssignments builds the Assignment of the response it received
FromResponse ==
    /\ data # NoResponse
    /\ built' = fromResponse(data)
    /\ UNCHANGED <<now, data>>
    /\ UNCHANGED outsideEntity

\* wall-clock time passes
Tick ==
    /\ now + 1 \in Instants
    /\ now' = now + 1
    /\ UNCHANGED <<data, built>>
    /\ UNCHANGED outsideEntity

\* ---- actions of the submissions of an Assignment

\* fromResponse builds an Assignment from a response without submissions
ConstructWithout ==
    /\ submissions' = Submissions(FALSE, <<>>)
    /\ activeRead' = Unread
    /\ UNCHANGED outsideList

\* fromResponse builds an Assignment from a response with submissions:
\* data.submissions?.map((res) => Submission.fromResponse(res))
ConstructWith(times) ==
    /\ submissions' = Submissions(TRUE, [i \in DOMAIN times |-> Submission(i, times[i])])
    /\ activeRead' = Unread
    /\ UNCHANGED outsideList

\* a read of activeSubmission: sort works on this._submissions itself
ReadActiveSubmission ==
    /\ activeRead' = activeSubmission(submissions)
    /\ submissions' = IF submissions.defined /\ Len(submissions.list) # 0
                      THEN [submissions EXCEPT !.list = sort(@)]
                      ELSE submissions
    /\ UNCHANGED outsideList

\* ---- actions of the submit form

\* onChange of the summary input, which is disabled while submitting
SetSummaryText(v) ==
    /\ ~form.stale
    /\ ~form.submitting
    /\ form' = [form EXCEPT !.summaryText = v]
    /\ UNCHANGED <<uploads, notices>>
    /\ UNCHANGED outsideSubmit

\* onChange of the description input, which is disabled while submitting
SetDescriptionText(v) ==
    /\ ~form.stale
    /\ ~form.submitting
    /\ form' = [form EXCEPT !.descriptionText = v]
    /\ UNCHANGED <<uploads, notices>>
    /\ UNCHANGED outsideSubmit

\* a click on the submit button or Enter in the summary input, both only
\* when not disabled: submitAssignment up to its await
Submit ==
    /\ ~Disabled(form)
    /\ Len(uploads) + notices.success + notices.error < MaxUploads
    /\ IF form.path = NullPath
       THEN UNCHANGED <<form, uploads>>
       ELSE /\ form' = [form EXCEPT !.submitting = TRUE]
            /\ uploads' = Append(uploads, Upload(form))
    /\ UNCHANGED notices
    /\ UNCHANGED outsideSubmit

UploadSettled_ClearsAlways(i, ok) ==
    /\ i \in DOMAIN uploads
    /\ uploads' = Without(uploads, i)
    /\ notices' = IF ok THEN [notices EXCEPT !.success = @ + 1]
                  ELSE [notices EXCEPT !.error = @ + 1]
    /\ form' = IF ~uploads[i].live THEN form
               ELSE [form EXCEPT !.summaryText = "", !.descriptionText = "",
                                 !.submitting = FALSE]
    /\ UNCHANGED outsideSubmit

\* the request resolves or rejects: submitAssignment after its await. The
\* setters of a form that is no longer mounted do nothing; the snackbar
\* belongs to the application and still opens
UploadSettled(i, ok) ==
    /\ i \in DOMAIN uploads
    /\ uploads' = Without(uploads, i)
    /\ notices' = IF ok THEN [notices EXCEPT !.success = @ + 1]
                  ELSE [notices EXCEPT !.error = @ + 1]
    /\ form' = IF ~uploads[i].live THEN form
               ELSE IF ok
               THEN [form EXCEPT !.summaryText = "", !.descriptionText = "",
                                 !.submitting = FALSE]
               ELSE [form EXCEPT !.submitting = FALSE]
    /\ UNCHANGED outsideSubmit

\* a poll puts a new current assignment or course into the context
Refresh(a, n) ==
    /\ ~form.stale
    /\ form' = [form EXCEPT !.assignment = a, !.instructors = n]
    /\ UNCHANGED <<uploads, notices>>
    /\ UNCHANGED outsideSubmit

\* the file browser changes directory: the form is rendered once more with
\* the new path and the assignment of the old one, before the poll effect
\* empties the slots
FormPathChanged(p) ==
    /\ ~form.stale
    /\ p # form.path
    /\ form' = [form EXCEPT !.path = p, !.stale = TRUE]
    /\ UNCHANGED <<uploads, notices>>
    /\ UNCHANGED outsideSubmit

\* loading becomes true (a directory change or a failed poll empties the
\* slots) and AssignmentContent renders the spinner instead of the form; a
\* later poll brings an assignment and a new form is mounted
Remount(a, n, p) ==
    /\ p = form.path \/ form.stale
    /\ form' = Mounted(a, n, p)
    /\ uploads' = [i \in DOMAIN uploads |-> [uploads[i] EXCEPT !.live = FALSE]]
    /\ UNCHANGED notices
    /\ UNCHANGED outsideSubmit

Next ==
    \/ \E p \in AllPaths : PathChanged(p)
    \/ AssignEffect
    \/ \E i \in 1..MaxPollers : AssignPollTimer(i)
    \/ \E i \in 1..MaxPollers, ok \in BOOLEAN, wire \in AssignmentsWire : AssignFetchSettled(i, ok, wire)
    \/ CoursePollTimer
    \/ \E ok \in BOOLEAN : CourseFetchSettled(ok)
    \/ \E i \in 1..MaxSockets : WsOpen(i)
    \/ \E i \in 1..MaxSockets : WsDropped(i)
    \/ \E i \in 1..MaxSockets, type \in MessageTypes : WsMessage(i, type)
    \/ \E i \in 1..MaxSockets : WsCloseEvent(i)
    \/ WsEffect
    \/ Unmount

\* the pollers and the context key, without the push channel
NextSync ==
    \/ \E p \in AllPaths : PathChanged(p)
    \/ AssignEffect
    \/ \E i \in 1..MaxPollers : AssignPollTimer(i)
    \/ \E i \in 1..MaxPollers, ok \in BOOLEAN, wire \in AssignmentsWire : AssignFetchSettled(i, ok, wire)
    \/ CoursePollTimer
    \/ \E ok \in BOOLEAN : CourseFetchSettled(ok)
    \/ Unmount

\* the pollers and the first connection of the push channel, without reconnection
NextFrame ==
    \/ NextSync
    \/ \E i \in 1..MaxSockets : WsOpen(i)
    \/ \E i \in 1..MaxSockets : WsDropped(i)

\* the push channel and the course/student poller, without the context key
NextChannel ==
    \/ CoursePollTimer
    \/ \E ok \in BOOLEAN : CourseFetchSettled(ok)
    \/ \E i \in 1..MaxSockets : WsOpen(i)
    \/ \E i \in 1..MaxSockets : WsDropped(i)
    \/ \E i \in 1..MaxSockets, type \in MessageTypes : WsMessage(i, type)
    \/ \E i \in 1..MaxSockets : WsCloseEvent(i)
    \/ WsEffect
    \/ Unmount

\* the instructor assignment form
NextForm ==
    \/ \E f \in DateFields, v \in MuiValues : Edit(f, v)
    \/ \E v \in Notebooks : Edit("gradedNotebook", v)
    \/ \E f \in Fields : DebounceTimer(f)
    \/ \E i \in 1..(2 * MaxEdits), outcome \in Outcomes : UpdateSettled(i, outcome)
    \/ Snapshot
    \/ InfoEffect

\* the form and its debounced handlers, with no response arriving
NextEdit ==
    \/ \E f \in DateFields, v \in MuiValues : Edit(f, v)
    \/ \E v \in Notebooks : Edit("gradedNotebook", v)
    \/ \E f \in Fields : DebounceTimer(f)
    \/ Snapshot
    \/ InfoEffect

\* the two date fields with a server that accepts or rejects each update
NextReject ==
    \/ \E f \in DateFields, v \in MuiValues : Edit(f, v)
    \/ \E f \in Fields : DebounceTimer(f)
    \/ \E i \in 1..(2 * MaxEdits), outcome \in {"ok", "http"} : UpdateSettled(i, outcome)
    \/ Snapshot
    \/ InfoEffect

\* the Assignment entity
NextEntity ==
    \/ \E a \in AdjustedDates : Respond(a)
    \/ FromResponse
    \/ Tick

\* the submissions of an Assignment
NextList ==
    \/ ConstructWithout
    \/ \E times \in SubmissionLists : ConstructWith(times)
    \/ ReadActiveSubmission

\* the submit form
NextSubmit ==
    \/ \E v \in SummaryTexts : SetSummaryText(v)
    \/ \E v \in DescriptionTexts : SetDescriptionText(v)
    \/ Submit
    \/ \E i \in 1..MaxUploads, ok \in BOOLEAN : UploadSettled(i, ok)
    \/ \E a \in FormAssignments, n \in InstructorCounts : Refresh(a, n)
    \/ \E p \in AllPaths : FormPathChanged(p)
    \/ \E a \in FormAssignments, n \in InstructorCounts, p \in Paths : Remount(a, n, p)

Spec == Init /\ [][Next]_vars
SpecSubmit == Init /\ [][NextSubmit]_vars
SpecList == Init /\ [][NextList]_vars
SpecEntity == Init /\ [][NextEntity]_vars
SpecForm == Init /\ [][NextForm]_vars
SpecEdit == InitForm /\ [][NextEdit]_vars
SpecReject == Init /\ [][NextReject]_vars
SpecChannel == Init /\ [][NextChannel]_vars
SpecFrame == Init /\ [][NextFrame]_vars
SpecSync == Init /\ [][NextSync]_vars

TypeOK ==
    /\ mounted \in BOOLEAN
    /\ currentPath \in AllPaths
    /\ loading \in BOOLEAN
    /\ nreq \in 0..MaxFetches
    /\ warnings \in 0..MaxFetches
    /\ ws \in DOMAIN sockets
    /\ wsBound \in DOMAIN sockets
    /\ Len(apoll) \in 1..MaxPollers
    /\ Len(sockets) \in 1..MaxSockets
    /\ dialogs \in 0..MaxDialogs
    /\ received \in Seq(MessageTypes) /\ Len(received) <= MaxMessages
    /\ server \in [DateFields -> Dates]
    /\ assignment \in [DateFields -> Dates]
    /\ infoEffectDue \in BOOLEAN
    /\ \A f \in DateFields : controlled[f] \in MuiValues
    /\ controlled["gradedNotebook"] \in Notebooks
    /\ debounce \in [Fields -> {"idle", "waiting", "pending"}]
    /\ \A f \in Fields : window[f].calls \in 0..MaxEdits /\ window[f].sent \in 0..2
    /\ Len(inflight) <= 2 * MaxEdits
    /\ errors \in 0..(2 * MaxEdits)
    /\ nEdits \in 0..MaxEdits
    /\ now \in Instants
    /\ submissions.defined \in BOOLEAN
    /\ Len(submissions.list) <= MaxSubmissions
    /\ form.assignment \in FormAssignments
    /\ form.path \in AllPaths
    /\ form.summaryText \in SummaryTexts
    /\ form.descriptionText \in DescriptionTexts
    /\ form.submitting \in BOOLEAN
    /\ Len(uploads) <= MaxUploads
    /\ notices.success + notices.error <= MaxUploads

\* ------------------------------------------------------------------ claims

\* a step in which a fetch fails: the catch block opened the warning
FetchFailed == warnings' = warnings + 1

\* C1: a failed poll fetch leaves assignments, currentAssignment, course and
\* student exactly as they were before the fetch.
C1_FailedFetchKeepsSnapshot ==
    [][FetchFailed =>
        /\ assignments' = assignments
        /\ currentAssignment' = currentAssignment
        /\ course' = course
        /\ student' = student]_vars

\* C2: whenever assignments or currentAssignment holds a fetched value, that
\* value is the response to a request issued for the current path.
C2_SlotBelongsToCurrentPath ==
    /\ assignments # Undefined => assignments.path = currentPath
    /\ currentAssignment # Undefined => currentAssignment.path = currentPath

\* the request of poller p settles in this step
Settles(p, q) == p.pc = "fetching" /\ q.pc # "fetching"

\* C3: when the request of a poller that is not cancelled settles, the poller
\* has its next attempt scheduled, whether the request failed or not, and a
\* successful response is what the domain's slots hold afterwards.
C3_FailureNeverStopsPoller ==
    [][/\ \A i \in DOMAIN apoll :
            (Settles(apoll[i], apoll'[i]) /\ ~apoll[i].cancelled) =>
                /\ apoll'[i].pc = "timer"
                /\ ~FetchFailed =>
                    /\ assignments'.req = apoll[i].req
                    /\ currentAssignment'.req = apoll[i].req
       /\ (Settles(cpoll, cpoll') /\ ~cpoll.cancelled) =>
                /\ cpoll'.pc = "timer"
                /\ ~FetchFailed =>
                    /\ course'.req = cpoll.req
                    /\ student'.req = cpoll.req]_vars

\* two requests of the one poller of a path failed, its third succeeded and is
\* what the slots hold
C3_Witness ==
    /\ Len(apoll) = 2
    /\ ~apoll[2].cancelled
    /\ cpoll.req = 0
    /\ course = Undefined
    /\ warnings = 2
    /\ assignments.req = 3
    /\ currentAssignment.req = 3
    /\ apoll[2].pc = "timer"

\* C4: a cancelled poller whose timer is pending starts no fetch request.
C4_CancelledPollerStartsNoFetch ==
    [][/\ \A i \in DOMAIN apoll :
            (apoll[i].cancelled /\ apoll[i].pc = "timer") => apoll'[i].pc # "fetching"
       /\ (cpoll.cancelled /\ cpoll.pc = "timer") => cpoll'.pc # "fetching"]_vars

\* requests of the assignments domain that have not settled
InFlight == {i \in DOMAIN apoll : apoll[i].pc = "fetching"}

\* C5: at most one fetch request is in flight per data domain.
C5_OneFetchInFlightPerDomain == Cardinality(InFlight) <= 1

\* C6: assignments and currentAssignment always come from the same response
\* (or both from the reset to undefined).
C6_PairIsOneSnapshot ==
    /\ assignments.req = currentAssignment.req
    /\ assignments.path = currentAssignment.path

\* the second response of a path replaced the first one as a pair
C6_Witness ==
    /\ Len(apoll) = 2
    /\ cpoll.req = 0
    /\ warnings = 0
    /\ assignments.v = "list"
    /\ currentAssignment.v = "assignment"
    /\ assignments.req = 2

\* C7: loading is true exactly when one of the four slots is undefined; null
\* is a fetched value.
C7_LoadingIffSomeSlotUnfetched ==
    /\ loading <=> (\/ currentAssignment.v = "undefined"
                    \/ assignments.v = "undefined"
                    \/ student.v = "undefined"
                    \/ course.v = "undefined")
    /\ AssignmentContent = "spinner" <=> loading

\* every slot fetched, assignments and currentAssignment null: not loading
C7_Witness ==
    /\ ~loading
    /\ assignments.v = "null"
    /\ currentAssignment.v = "null"
    /\ AssignmentContent = "NoAssignmentWarning"

\* C8: a change of currentPath leaves course, student, the course/student
\* poller and the push channel as they were, and so does the effect it
\* triggers, which cancels the current assignments poller and starts one for
\* the new path.
C8_PathChangeFrame ==
    [][/\ (currentPath' # currentPath \/ Len(apoll') # Len(apoll)) =>
            /\ student' = student
            /\ course' = course
            /\ cpoll' = cpoll
            /\ sockets' = sockets
            /\ ws' = ws
            /\ wsBound' = wsBound
       /\ Len(apoll') # Len(apoll) =>
            /\ Len(apoll') = Len(apoll) + 1
            /\ apoll'[Len(apoll)] = Cancel(apoll[Len(apoll)])
            /\ apoll'[Len(apoll')] = NewPoller(currentPath)
            /\ currentPath' = currentPath]_vars

\* the path changed and the effect ran while the previous poller's request was
\* in flight, with course data fetched, the course poller fetching again and
\* the socket open
C8_Witness ==
    /\ Len(apoll) = 3
    /\ apoll[2].cancelled /\ apoll[2].pc = "fetching"
    /\ apoll[3] = NewPoller(currentPath)
    /\ assignments = Undefined
    /\ course.v = "course"
    /\ cpoll.pc = "fetching"
    /\ sockets[ws].state = "open"

\* C9: once the provider is torn down no WebSocket is created.
C9_NoSocketAfterTeardown ==
    [][~mounted => Len(sockets') = Len(sockets)]_vars

\* C10: the step that handles a connection's close event creates no
\* connection; the replacement is created later, when the reopen delay fires.
C10_ReconnectWaitsForDelay ==
    [][\A i \in DOMAIN sockets :
        (sockets[i].closePending /\ ~sockets'[i].closePending)
            => Len(sockets') = Len(sockets)]_vars

\* C11: while the provider is mounted the client never stays disconnected:
\* a closed current connection still has its close event to dispatch or the
\* websocket effect to run, so that a replacement with its listeners follows.
C11_NeverStaysDisconnected ==
    (mounted /\ sockets[ws].state = "closed") =>
        \/ sockets[ws].closePending /\ sockets[ws].listeners
        \/ WsEffectDue /\ sockets[ws].closePending

\* C12: the step that handles a downsync message re-arms or short-circuits a
\* poller, or invalidates a snapshot slot.
C12_DownsyncTriggersRefetch ==
    [][dialogs' = dialogs + 1 =>
        \/ apoll' # apoll
        \/ cpoll' # cpoll
        \/ nreq' # nreq
        \/ <<currentAssignment, assignments, student, course>>'
             # <<currentAssignment, assignments, student, course>>]_vars

\* C14: the step that creates an assignments poller for a path issues that
\* poller's first request itself.
C14_FirstFetchIsImmediate ==
    [][(Len(apoll') = Len(apoll) + 1 /\ currentPath # NullPath) =>
        apoll'[Len(apoll')].pc = "fetching"]_vars

\* C13: a "downsync" message handled by the listener opens exactly one dialog;
\* a message of any other type opens none; neither raises an error nor
\* changes a slot, a poller or the channel.
C13_OnlyDownsyncOpensDialog ==
    [][Len(received') = Len(received) + 1 =>
        /\ dialogs' = IF received'[Len(received')] = "downsync" THEN dialogs + 1 ELSE dialogs
        /\ UNCHANGED <<slots, warnings, apoll, cpoll, nreq, sockets, ws, wsBound>>]_vars

C13_Witness ==
    /\ received = <<"other", "downsync">>
    /\ dialogs = 1
    /\ student.v = "student"

\* steps of a field's debounce: the leading call, the trailing call, a change
\* event of a field
Leading(f) == debounce[f] = "idle" /\ debounce'[f] = "waiting"
Trailing(f) == debounce[f] = "pending" /\ debounce'[f] = "idle"
EditStep(f) == nEdits' = nEdits + 1 /\ e'.field = f

\* C15 as stated: three accepted edits to one field within one debounce window
\* produce exactly one outbound updateAssignment request.
C15_ThreeEditsOneWrite ==
    \A f \in Fields :
        (debounce[f] = "idle" /\ window[f].calls = 3) => window[f].sent = 1

\* C15 amended: edits to one field within one debounce window produce two
\* requests when there are two or more of them: the first edit is sent at once
\* with its own value, and the closing of the window sends one more request
\* carrying the value the field then displays.
C15_LeadingAndTrailingWrite ==
    /\ [](\A f \in Fields :
            window[f].calls >= 2 =>
                window[f].sent = IF debounce[f] = "idle" THEN 2 ELSE 1)
    /\ [][\A f \in Fields :
            /\ Leading(f) =>
                /\ EditStep(f)
                /\ inflight' = Append(inflight, Request(f, e'.value))
            /\ Trailing(f) => inflight' = Append(inflight, Request(f, controlled[f]))
            /\ (~Leading(f) /\ ~Trailing(f)) =>
                \A i \in DOMAIN inflight' : i > Len(inflight) => inflight'[i].handler # f]_vars

C15_Witness ==
    \E f \in Fields :
        /\ debounce[f] = "idle"
        /\ window[f].calls = 3
        /\ window[f].sent = 2
        /\ inflight[Len(inflight)] = Request(f, e.value)

\* C16: an accepted edit to a date field whose own debounce is idle is sent in
\* that step, whatever the state of the other fields' debounce windows; the
\* request carries that field only and the other fields' windows are untouched.
C16_FieldsDebouncedIndependently ==
    [][\A f \in DateFields :
        (EditStep(f) /\ ~Rejects(f, e'.value) /\ debounce[f] = "idle") =>
            /\ Len(inflight') = Len(inflight) + 1
            /\ SubSeq(inflight', 1, Len(inflight)) = inflight
            /\ inflight'[Len(inflight')].handler = f
            /\ DOMAIN inflight'[Len(inflight')].data = {BodyKey(f)}
            /\ \A g \in Fields \ {f} : debounce'[g] = debounce[g] /\ window'[g] = window[g]]_vars

C16_Witness ==
    /\ Len(inflight) = 2
    /\ inflight[1].handler = "availableDate"
    /\ inflight[2].handler = "dueDate"
    /\ debounce["availableDate"] = "waiting"
    /\ debounce["dueDate"] = "waiting"

\* the edit would put the due date before the available date of the assignment
WouldPrecede(f, value) ==
    /\ value # ""
    /\ IF f = "availableDate"
       THEN assignment.dueDate # Null /\ assignment.dueDate[1] < NewDate(value)[1]
       ELSE assignment.availableDate # Null /\ NewDate(value)[1] < assignment.availableDate[1]

C18_RejectedValueStays ==
    [][\A f \in DateFields :
        (failures[f].http > 0 /\ ~EditStep(f)) => controlled'[f] = controlled[f]]_vars

\* C18 amended: the rejection of a date update opens one error notification and
\* itself leaves the displayed values as they are; a displayed date changes only
\* by an edit or by the form's [assignment] effect, and that effect sets both
\* date fields to the dates of the snapshot it runs for.
C18_RejectedValueStaysUntilRefresh ==
    [][/\ (\E f \in DateFields : failures'[f].http = failures[f].http + 1) =>
            (errors' = errors + 1 /\ controlled' = controlled)
       /\ (infoEffectDue /\ ~infoEffectDue') =>
            \A f \in DateFields : controlled'[f] = formatDateToMui(assignment[f])
       /\ \A f \in DateFields :
            controlled'[f] # controlled[f] => (EditStep(f) \/ (infoEffectDue /\ ~infoEffectDue'))]_vars

C18_Witness ==
    \E f \in DateFields :
        /\ failures[f].http > 0
        /\ errors > 0
        /\ ~infoEffectDue
        /\ inflight = <<>>
        /\ controlled[f] = formatDateToMui(server[f])
        /\ controlled[f] # e.value
        /\ e.field = f

\* C19: every failed updateAssignment request, of any field and of either
\* kind, has opened exactly one error notification.
C19_EveryFailureNotifiesOnce ==
    errors = failures["availableDate"].http + failures["availableDate"].network
           + failures["dueDate"].http + failures["dueDate"].network
           + failures["gradedNotebook"].http + failures["gradedNotebook"].network

C21_FlagsFollowTheClock ==
    built # NoAssignment =>
        /\ built.isAvailable <=>
            (built.isCreated /\ built.adjustedAvailableDate # Null
                /\ now >= built.adjustedAvailableDate[1])
        /\ built.isClosed <=>
            (built.isCreated /\ built.adjustedDueDate # Null
                /\ now >= built.adjustedDueDate[1])

\* C26: the settling of a request of a cancelled poller opens no warning.
C26_CancelledPollerOpensNoWarning ==
    [][/\ \A i \in DOMAIN apoll :
            (Settles(apoll[i], apoll'[i]) /\ apoll[i].cancelled) => warnings' = warnings
       /\ (Settles(cpoll, cpoll') /\ cpoll.cancelled) => warnings' = warnings]_vars

\* the date most recently sent for a field, Null if none was sent (no response
\* removes a request under SpecEdit, so inflight is every request sent)
SentFor(f) == {i \in DOMAIN inflight : inflight[i].handler = f}
LastSent(f) ==
    IF SentFor(f) = {} THEN Null
    ELSE inflight[CHOOSE i \in SentFor(f) : \A j \in SentFor(f) : j <= i].data[BodyKey(f)]

\* C25: when the most recently sent available date and the most recently sent
\* due date are both non-null, the available date is strictly earlier.
C25_SentDatesOrdered ==
    (LastSent("availableDate") # Null /\ LastSent("dueDate") # Null) =>
        LastSent("availableDate")[1] < LastSent("dueDate")[1]

\* C30: the form's [assignment] effect sets both displayed date fields to the
\* dates of the snapshot it runs for, whatever was edited locally.
C30_SnapshotOverwritesEdits ==
    [][(infoEffectDue /\ ~infoEffectDue') =>
        /\ controlled'["availableDate"] = formatDateToMui(assignment.availableDate)
        /\ controlled'["dueDate"] = formatDateToMui(assignment.dueDate)
        /\ UNCHANGED <<debounce, inflight>>]_vars

\* an edited value whose trailing write is still kept by the debounce has been
\* replaced on screen by the server's value
C30_Witness ==
    \E f \in DateFields :
        /\ e.field = f
        /\ debounce[f] = "pending"
        /\ ~infoEffectDue
        /\ controlled[f] = formatDateToMui(server[f])
        /\ controlled[f] # e.value
        /\ ~Rejects(f, e.value)

\* the submissions of the Assignment, as a set
Elements == {submissions.list[i] : i \in DOMAIN submissions.list}

\* C23: a read of activeSubmission returns undefined when the Assignment has
\* no submissions list, null when the list is empty, and otherwise one of its
\* submissions whose submission time no other submission exceeds.
C23_ActiveIsMostRecent ==
    activeRead # Unread =>
        IF ~submissions.defined THEN activeRead = UndefinedResult
        ELSE IF submissions.list = <<>> THEN activeRead = NullResult
        ELSE /\ activeRead \in Elements
             /\ \A x \in Elements : x.submissionTime <= activeRead.submissionTime

\* the most recent submission was the last of three in the response
C23_Witness ==
    /\ activeRead = Submission(3, 2)
    /\ Submission(1, 0) \in Elements
    /\ Submission(2, 1) \in Elements

\* C24: a read of activeSubmission leaves the submissions list as it was,
\* the order of its elements included.
C24_ReadLeavesListAlone ==
    [][activeRead' # Unread => submissions' = submissions]_vars

\* C22 (as stated): an available, open assignment with a summary and no
\* upload in progress can be submitted, and for every closed assignment the
\* submit action is disabled and the reason shown is the "Past due" string.
C22_ClosedShowsPastDue ==
    /\ (form.assignment.isAvailable /\ ~form.assignment.isClosed
            /\ form.summaryText # "" /\ ~form.submitting) => ~Disabled(form)
    /\ form.assignment.isClosed =>
        (Disabled(form) /\ DisabledReason(form) = PastDue(form.instructors))

\* C22 (amended): an available, open assignment with a summary and no upload
\* in progress can be submitted and shows no reason; for every closed
\* assignment the submit action is disabled, and the reason shown is the
\* "Past due" string unless an upload is in progress, when it is the
\* "Currently uploading submission" string.
C22_ClosedIsDisabled ==
    /\ (form.assignment.isAvailable /\ ~form.assignment.isClosed
            /\ form.summaryText # "" /\ ~form.submitting) =>
        (~Disabled(form) /\ DisabledReason(form) = UndefinedText)
    /\ form.assignment.isClosed =>
        /\ Disabled(form)
        /\ DisabledReason(form) =
            IF form.submitting THEN Uploading ELSE PastDue(form.instructors)

\* the assignment closes while the upload of a submission is in progress
C22_Witness ==
    /\ form.assignment.isClosed
    /\ form.submitting
    /\ form.summaryText # ""
    /\ uploads # <<>>

\* C27: at most one submit request is in flight at any time.
C27_OneUploadInFlight == Len(uploads) <= 1

\* the step in which request i of the submit form settles
UploadSettles(i) ==
    /\ i \in DOMAIN uploads
    /\ uploads' = Without(uploads, i)
    /\ notices' # notices

\* C28: when a submit request of the mounted form settles, a success
\* leaves the summary and the description both the empty string, and a
\* failure leaves both the texts the form had when the submit started.
C28_TextsClearedOnlyOnSuccess ==
    [][\A i \in DOMAIN uploads : (UploadSettles(i) /\ uploads[i].live) =>
        IF notices'.success > notices.success
        THEN form'.summaryText = "" /\ form'.descriptionText = ""
        ELSE /\ form'.summaryText = uploads[i].summaryText
             /\ form'.descriptionText = uploads[i].descriptionText]_vars

\* the only submit made so far has failed and the form still holds its texts
C28_Witness ==
    /\ notices = [success |-> 0, error |-> 1]
    /\ uploads = <<>>
    /\ ~form.submitting
    /\ form.summaryText = "s"
    /\ form.descriptionText = "d"

\* C29: a submit made with an empty description text sends a body without a
\* description field.
C29_EmptyDescriptionOmitted ==
    \A i \in DOMAIN uploads :
        uploads[i].descriptionText = "" => "description" \notin DOMAIN uploads[i].body
====
